---- MODULE Spec2Model ----
(***************************************************************************)
(* A model of the toolbelt session orchestrator (lib/toolbelt.py) and of   *)
(* the process around it: the capability files under lib/tools, the        *)
(* interpreter's module cache, the worker pool of the synthesis phase and  *)
(* the language-model, storage and session-store collaborators.            *)
(*                                                                         *)
(* ToolbeltSession.run is an async generator: it runs from one yield to    *)
(* the next, and each action below is one such segment (or one step of a   *)
(* worker thread of the synthesis pool).  pc[r] names the segment run r    *)
(* executes next.  Python semantics are those of CPython up to 3.12, where *)
(* a name bound by exec() in a function is seen by a later eval().         *)
(***************************************************************************)
EXTENDS Integers, Sequences, FiniteSets, TLC

\* ------------------------------------------------------------------ bounds
MaxSpecs == 2
MaxCalls == 2
\* the same, where two requests are served one after the other
SeqSpecs == 1
SeqCalls == 1
\* the parts of a text given to extract_tool_specs
MaxParts == 3

Runs == {1, 2}
\* Capability names the Planner may choose; pow is also the name of a
\* function of Python's builtins.
Names == {"add_numbers", "pow"}
Builtins == {"pow"}
\* What a source text does: its function returns a + b, raises, or returns a
\* value json.dumps cannot encode; or the text is not a module that can be
\* imported (the model's output is written as it is, line 65-69).
Lines == {"ok", "raise", "unser", "broken"}
Texts == {<<l>> : l \in Lines}
\* the source texts of the specifications that serve two requests
TwoRunLines == {"ok", "raise"}
SummaryTexts == {"answer_1", "answer_2"}

user_request(r) == "user_request"
session_id(r) == r
user_id(r) == "user"

\* ------------------------------------------------------- python containers
EmptyMap == [k \in {} |-> <<>>]
MapSet(m, k, v) == [x \in DOMAIN m \cup {k} |-> IF x = k THEN v ELSE m[x]]

\* A dict keyed by name keeps the position of a key's first insertion and the
\* value of its last: d[name] = spec.
DictHas(d, name) == \E i \in 1..Len(d) : d[i].name = name
\* setdefault in place of assignment: the first specification of a name stays
DictSetFirstWins(d, spec) ==
    IF DictHas(d, spec.name) THEN d ELSE Append(d, spec)
DictSet(d, spec) ==
    IF DictHas(d, spec.name)
    THEN [i \in 1..Len(d) |-> IF d[i].name = spec.name THEN spec ELSE d[i]]
    ELSE Append(d, spec)
DictKeys(d) == {d[i].name : i \in 1..Len(d)}
DictGet(d, name) == d[CHOOSE i \in 1..Len(d) : d[i].name = name]

\* ------------------------------------------------------------- the planner
\* The planner's output_text: the <tool_spec> candidates in order of
\* appearance.  A candidate is malformed JSON, or a specification; the i-th
\* candidate's description is i, so two specifications of one name differ.
\* A candidate may also be JSON that is no specification: a value without a
\* 'name' (an object without that key, or a list, a string, a number), shown
\* by the name "", or an object without a 'description', shown by 0.
BadCandidate == [valid |-> FALSE, name |-> "", description |-> 0]
NoName(i) == [valid |-> TRUE, name |-> "", description |-> i]
NoDescription(n) == [valid |-> TRUE, name |-> n, description |-> 0]
Candidates(i) ==
    {BadCandidate} \cup {[valid |-> TRUE, name |-> n, description |-> i] : n \in Names}
        \cup {NoName(i)} \cup {NoDescription(n) : n \in Names}
PlannerTexts ==
    UNION {{s \in [1..k -> UNION {Candidates(i) : i \in 1..k}] :
              \A i \in 1..k : s[i] \in Candidates(i)} : k \in 0..MaxSpecs}
\* The function_call items of the planner's output: none, or one call of
\* create_tool (lib/tools/create_tool.py) whose tool_json_schema argument is
\* a specification.
StructuredCalls ==
    {<<>>} \cup {<<[valid |-> TRUE, name |-> n, description |-> MaxSpecs + 1]>> : n \in Names}
\* responses.create returns a response (its output_text and its function
\* calls) or raises.
PlannerOutcomes ==
    {[raised |-> FALSE, text |-> t, calls |-> c] : t \in PlannerTexts, c \in StructuredCalls}
        \cup {[raised |-> TRUE, text |-> <<>>, calls |-> <<>>]}

IsValid(c) == c.valid
ParseSpec(c) == [name |-> c.name, description |-> c.description]
extract_tool_specs(content) ==
    LET ok == SelectSeq(content, IsValid)
    IN  [i \in 1..Len(ok) |-> ParseSpec(ok[i])]

\* A model text, token by token: the two markers, whitespace, a JSON value
\* that is a specification, and any other text.
Tok(kind) == [kind |-> kind, name |-> "", description |-> 0]
JsonTok(n, d) == [kind |-> "json", name |-> n, description |-> d]
Open == Tok("open")
Close == Tok("close")

\* The parts a text is written of, the i-th part's specification having the
\* description i: free text, a candidate between its markers (a
\* specification, bare or in whitespace; malformed text; nothing; two values),
\* and a candidate whose closing marker is missing.
Part(toks, delimited, valid, n, d) ==
    [toks |-> toks, delimited |-> delimited, valid |-> valid,
     spec |-> [name |-> n, description |-> d]]
Parts(i) ==
    {Part(<<Tok("text")>>, TRUE, FALSE, "", 0),
     Part(<<Open, Tok("text"), Close>>, TRUE, FALSE, "", 0),
     Part(<<Open, Close>>, TRUE, FALSE, "", 0),
     Part(<<Open, JsonTok("pow", i), JsonTok("pow", i), Close>>, TRUE, FALSE, "", 0),
     Part(<<Open, Tok("ws"), JsonTok("pow", i), Tok("ws"), Close>>, TRUE, TRUE, "pow", i),
     Part(<<Open, JsonTok("add_numbers", i)>>, FALSE, FALSE, "", 0)}
        \cup {Part(<<Open, JsonTok(n, i), Close>>, TRUE, TRUE, n, i) : n \in Names}
ModelTexts ==
    UNION {{s \in [1..k -> UNION {Parts(i) : i \in 1..k}] :
              \A i \in 1..k : s[i] \in Parts(i)} : k \in 0..MaxParts}
RECURSIVE Flatten(_)
Flatten(parts) == IF parts = <<>> THEN <<>> ELSE Head(parts).toks \o Flatten(Tail(parts))

\* line 31-32: re.findall(r'<tool_spec>\s*(.*?)\s*</tool_spec>', content, re.DOTALL):
\* from the first opening marker to the nearest closing marker after it,
\* then on from there; the group is what lies between, without the
\* whitespace at its ends
FirstAt(content, kind, from) ==
    LET at == {i \in from..Len(content) : content[i].kind = kind}
    IN  IF at = {} THEN 0 ELSE CHOOSE i \in at : \A j \in at : i <= j
RECURSIVE strip(_)
strip(match) ==
    IF match = <<>> THEN match
    ELSE IF Head(match).kind = "ws" THEN strip(Tail(match))
    ELSE IF match[Len(match)].kind = "ws" THEN strip(SubSeq(match, 1, Len(match) - 1))
    ELSE match
RECURSIVE FindFrom(_, _)
FindFrom(content, from) ==
    LET i == FirstAt(content, "open", from)
        j == IF i = 0 THEN 0 ELSE FirstAt(content, "close", i + 1)
    IN  IF j = 0 THEN <<>>
        ELSE <<strip(SubSeq(content, i + 1, j - 1))>> \o FindFrom(content, j + 1)
\* the match runs to the last closing marker of the text
FindGreedy(content) ==
    LET i == FirstAt(content, "open", 1)
        ends == {j \in 1..Len(content) : j > i /\ content[j].kind = "close"}
    IN  IF i = 0 \/ ends = {} THEN <<>>
        ELSE <<strip(SubSeq(content, i + 1, (CHOOSE j \in ends : \A k \in ends : k <= j) - 1))>>
re_findall(content) == FindFrom(content, 1)

\* line 37: json.loads(match.strip()) succeeds when the text is one JSON value
Candidate(match) ==
    IF Len(match) = 1 /\ match[1].kind = "json"
    THEN [valid |-> TRUE, name |-> match[1].name, description |-> match[1].description]
    ELSE BadCandidate
Matches(content) ==
    LET matches == re_findall(content)
    IN  [i \in 1..Len(matches) |-> Candidate(strip(matches[i]))]

\* line 87: tool['name'] raises KeyError or TypeError for a value without a
\* name; the specifications before the first such value are the ones stored
HasName(spec) == spec.name # ""
\* line 92: t["description"] raises KeyError for an object without the key
HasDescription(spec) == spec.description # 0
Storable(specs) ==
    IF \A i \in 1..Len(specs) : HasName(specs[i]) THEN specs
    ELSE SubSeq(specs, 1, (CHOOSE i \in 1..Len(specs) :
                              /\ ~HasName(specs[i])
                              /\ \A j \in 1..(i - 1) : HasName(specs[j])) - 1)

\* for tool in specs: tools_to_create[tool['name']] = tool
RECURSIVE StoreSpecs(_, _)
StoreSpecs(d, specs) ==
    IF specs = <<>> THEN d
    ELSE StoreSpecs(DictSet(d, Head(specs)), Tail(specs))

\* ------------------------------------------------------------- the invoker
\* The invoker's output items: function calls, after at most one plain
\* message.  The i-th item's call has call_id i; its arguments are a text,
\* the JSON object {a: 2, b: i + 2} or a text that is not JSON (json FALSE).
MessageItem ==
    [type |-> "message", name |-> "", arguments |-> [a |-> 0, b |-> 0, json |-> FALSE],
     call_id |-> 0]
CallItem(n, i) ==
    [type |-> "function_call", name |-> n, arguments |-> [a |-> 2, b |-> i + 2, json |-> TRUE],
     call_id |-> i]
BadArgsItem(n, i) ==
    [type |-> "function_call", name |-> n, arguments |-> [a |-> 0, b |-> 0, json |-> FALSE],
     call_id |-> i]
Items(i) ==
    (IF i = 1 THEN {MessageItem} ELSE {})
        \cup {CallItem(n, i) : n \in Names} \cup {BadArgsItem(n, i) : n \in Names}
InvokerOutputs ==
    UNION {{s \in [1..k -> UNION {Items(i) : i \in 1..k}] :
              \A i \in 1..k : s[i] \in Items(i)} : k \in 0..MaxCalls}
InvokerOutcomes ==
    {[raised |-> FALSE, output |-> o] : o \in InvokerOutputs} \cup {[raised |-> TRUE, output |-> <<>>]}

IsFunctionCall(item) == item.type = "function_call"
\* json.loads of an arguments text: the object, or JSONDecodeError
IsJson(arguments) == arguments.json
json_loads(arguments) == [a |-> arguments.a, b |-> arguments.b]

\* ------------------------------------------------------------ capabilities
\* Calling the function a module content defines (the last definition in the
\* file is the one the module exposes).
Apply(content, args) ==
    LET line == content[Len(content)]
    IN  CASE line = "ok"    -> [raised |-> FALSE, kind |-> "int", int |-> args.a + args.b, msg |-> ""]
          [] line = "unser" -> [raised |-> FALSE, kind |-> "object", int |-> 0, msg |-> ""]
          [] OTHER          -> [raised |-> TRUE, kind |-> "none", int |-> 0, msg |-> "ToolError"]

\* json.dumps of a returned value: the JSON text, or a TypeError.
JsonNumber(v) == [json |-> "number", int |-> v, error |-> ""]
\* the message itself is the output, not an object that holds it
JsonErrorBare(msg) == [json |-> "string", int |-> 0, error |-> msg]
\* line 191: json.dumps({"error": str(e)})
JsonError(msg) == [json |-> "object", int |-> 0, error |-> msg]
Serializable(value) == value.kind = "int"

CallResult(call_id, output) ==
    [type |-> "function_call_output", call_id |-> call_id, output |-> output]

\* ------------------------------------------------------------------ events
Event(type, name, n, m, msg) ==
    [type |-> type, name |-> name, n |-> n, m |-> m, msg |-> msg]
Ev(type) == Event(type, "", 0, 0, "")

Unset == <<>>
Oracle0 ==
    [planner |-> Unset, synth |-> EmptyMap, persist |-> Unset,
     invoker |-> Unset, summary |-> Unset]

VARIABLES
    storage,        \* lib/tools/<name>.py: name -> content, process-wide
    modules,        \* sys.modules: name -> content loaded, process-wide
    tools_table,    \* rows inserted into the session store's "tools" table
    pc,
    events,         \* the strings run has yielded
    creation_thread,
    response_thread,
    tools_to_create,
    tool_fns,
    worker,         \* the futures of the synthesis pool
    idx,            \* position of the loop the run is in
    synth_error,
    use_tool_output,
    new_fn_invocations,
    bound,          \* names bound in run's namespace by exec
    response_tool_call_results,
    pending_error,  \* the error result line 191 appends on resumption
    llm,            \* the model calls run has made itself
    invoked,        \* the capability operations run has invoked
    writes,         \* the file writes, in order, process-wide
    oracle,         \* what the mocked collaborators answered
    all_messages,   \* the events the transport wrapper has collected
    frames,         \* the frames the transport wrapper has yielded
    log_calls,      \* the session-log updates sent to the session store
    storage0,       \* the storage at the start of the first run
    scope,          \* the longest planner and invoker answers of each run
    written,        \* the parts of the text given to extract_tool_specs
    content,        \* that text
    extracted       \* what extract_tool_specs returned for it

textvars == <<written, content>>
setup == <<storage0, scope, textvars, extracted>>
storevars == <<tools_table, log_calls>>
outvars == <<events, all_messages, frames>>
procvars == <<storage, modules, storevars, writes, setup>>
planvars == <<creation_thread, tools_to_create>>
synthvars == <<tool_fns, worker, synth_error>>
usevars == <<response_thread, use_tool_output, new_fn_invocations, bound,
             response_tool_call_results, pending_error, invoked>>
vars == <<procvars, pc, outvars, planvars, synthvars, idx, usevars, llm, oracle>>

Worker0 == [n \in Names |-> [st |-> "none", text |-> <<>>]]

\* lines 48-56: a session as constructed
SessionInit ==
    /\ events = [r \in Runs |-> <<>>]
    /\ creation_thread = [r \in Runs |-> <<>>]
    /\ response_thread = [r \in Runs |-> <<>>]
    /\ tools_to_create = [r \in Runs |-> <<>>]
    /\ tool_fns = [r \in Runs |-> EmptyMap]
    /\ worker = [r \in Runs |-> Worker0]
    /\ idx = [r \in Runs |-> 1]
    /\ synth_error = [r \in Runs |-> ""]
    /\ use_tool_output = [r \in Runs |-> <<>>]
    /\ new_fn_invocations = [r \in Runs |-> <<>>]
    /\ bound = [r \in Runs |-> EmptyMap]
    /\ response_tool_call_results = [r \in Runs |-> <<>>]
    /\ pending_error = [r \in Runs |-> <<>>]
    /\ llm = [r \in Runs |-> <<>>]
    /\ invoked = [r \in Runs |-> <<>>]
    /\ oracle = [r \in Runs |-> Oracle0]
    /\ all_messages = [r \in Runs |-> <<>>]
    /\ frames = [r \in Runs |-> <<>>]
    /\ log_calls = [r \in Runs |-> <<>>]

\* one request has arrived, the next has not
RunInit ==
    /\ pc = [r \in Runs |-> IF r = 1 THEN "idle" ELSE "unborn"]
    /\ SessionInit

\* The capability files a fresh process finds: lib/tools holds files of
\* earlier syntheses, here one for one of the two names and none for the other.
InitStorages == {[n \in {"add_numbers"} |-> <<"ok">>]}

NotExtracted == [returned |-> FALSE, tool_specs |-> <<>>]
NoText ==
    /\ written = <<>>
    /\ content = <<>>
    /\ extracted = NotExtracted

ProcInit ==
    /\ storage = storage0
    /\ modules = EmptyMap
    /\ tools_table = <<>>
    /\ writes = <<>>
    /\ NoText

Init ==
    /\ RunInit
    /\ storage0 \in InitStorages
    /\ ProcInit
    /\ scope = [r \in Runs |-> [specs |-> MaxSpecs, calls |-> MaxCalls, lines |-> Lines, loose |-> FALSE]]

\* A mocked collaborator answers the same input the same way: once it has
\* answered, the answer is kept.
Answers(memo, all) == IF Len(memo) = 0 THEN all ELSE {memo[1]}
\* a model output is well formed when every JSON value among its candidates is
\* a specification with a name and a description, and the arguments of every
\* function call are JSON; scope says whether other outputs are considered,
\* and whether the planner may answer with function calls
WellFormedText(text) ==
    \A i \in 1..Len(text) : text[i].valid => (HasName(text[i]) /\ HasDescription(text[i]))
WellFormedOutput(output) ==
    \A i \in 1..Len(output) : IsFunctionCall(output[i]) => IsJson(output[i].arguments)
PlannerAnswers(r) ==
    Answers(oracle[r].planner,
            {o \in PlannerOutcomes : /\ Len(o.text) <= scope[r].specs
                                     /\ scope[r].loose
                                            \/ (WellFormedText(o.text) /\ o.calls = <<>>)})
InvokerAnswers(r) ==
    Answers(oracle[r].invoker,
            {o \in InvokerOutcomes : /\ Len(o.output) <= scope[r].calls
                                     /\ scope[r].loose \/ WellFormedOutput(o.output)})

\* api.py line 40: f"data: {message}\n\n"
Frame(message) == [data |-> message]
\* the message is framed twice
ForwardTwice(sent, message) == sent \o <<Frame(message), Frame(message)>>
\* api.py lines 38-40: the wrapper yields one frame for the message it received
Forward(sent, message) == Append(sent, Frame(message))

\* a yield of run, received by the transport wrapper (api.py lines 38-40)
Emit(r, e) ==
    /\ events' = [events EXCEPT ![r] = Append(@, e)]
    /\ all_messages' = [all_messages EXCEPT ![r] = Append(@, e)]
    /\ frames' = [frames EXCEPT ![r] = Forward(@, e)]
Goto(r, label) == pc' = [pc EXCEPT ![r] = label]

\* ---------------------------------------------------------------- planning
\* the Planner is called before the first event is yielded
StartEager(r) ==
    /\ pc[r] = "idle"
    /\ creation_thread' = [creation_thread EXCEPT ![r] =
            Append(@, [role |-> "user", content |-> user_request(r), output |-> <<>>])]
    /\ llm' = [llm EXCEPT ![r] = Append(@,
            [kind |-> "planner", input |-> creation_thread'[r], tools |-> <<>>, mode |-> "none"])]
    /\ Emit(r, Ev("determining"))
    /\ Goto(r, "plan")
    /\ UNCHANGED <<procvars, tools_to_create, synthvars, idx, usevars, oracle>>

\* lines 74-76
Start(r) ==
    /\ pc[r] = "idle"
    /\ creation_thread' = [creation_thread EXCEPT ![r] =
            Append(@, [role |-> "user", content |-> user_request(r), output |-> <<>>])]
    /\ Emit(r, Ev("determining"))
    /\ Goto(r, "plan")
    /\ UNCHANGED <<procvars, tools_to_create, synthvars, idx, usevars, llm, oracle>>

\* the exception is swallowed and the run goes on to the reporting
PlannerRaisedIgnored(r) == "report"
\* line 77: nothing catches an exception of the Planner call, run ends with it
PlannerRaised(r) == "aborted"

\* lines 77-90
PlannerCall(r) ==
    /\ pc[r] = "plan"
    /\ \E out \in PlannerAnswers(r) :
        /\ oracle' = [oracle EXCEPT ![r].planner = <<out>>]
        /\ llm' = [llm EXCEPT ![r] = Append(@,
                [kind |-> "planner", input |-> creation_thread[r], tools |-> <<>>, mode |-> "none"])]
        /\ IF out.raised
           THEN /\ Goto(r, PlannerRaised(r))
                /\ UNCHANGED <<outvars, planvars, idx>>
           ELSE /\ creation_thread' = [creation_thread EXCEPT ![r] =
                        Append(@, [role |-> "assistant", content |-> "", output |-> out.text,
                                   calls |-> out.calls])]
                /\ tools_to_create' = [tools_to_create EXCEPT ![r] =
                        StoreSpecs(@, Storable(extract_tool_specs(out.text)))]
                /\ IF Storable(extract_tool_specs(out.text)) = extract_tool_specs(out.text)
                   THEN /\ Emit(r, Ev("great"))
                        /\ idx' = [idx EXCEPT ![r] = 1]
                        /\ Goto(r, "report")
                   ELSE \* line 87 raised inside the loop, which no try block encloses
                        /\ Goto(r, "aborted")
                        /\ UNCHANGED <<outvars, idx>>
    /\ UNCHANGED <<procvars, synthvars, usevars>>

\* --------------------------------------------------------------- reporting
\* the entries are reported from the last to the first
ReportedEntryReversed(r) == tools_to_create[r][Len(tools_to_create[r]) + 1 - idx[r]]
\* line 91: for t in self.tools_to_create.values(), in the dict's order
ReportedEntry(r) == tools_to_create[r][idx[r]]

\* lines 91-92
ReportTool(r) ==
    /\ pc[r] = "report"
    /\ idx[r] <= Len(tools_to_create[r])
    /\ LET t == ReportedEntry(r)
       IN  IF HasDescription(t)
           THEN /\ Emit(r, Event("tool", t.name, t.description, 0, ""))
                /\ idx' = [idx EXCEPT ![r] = @ + 1]
                /\ UNCHANGED pc
           ELSE \* line 92: t["description"] raises KeyError, in no try block
                /\ Goto(r, "aborted")
                /\ UNCHANGED <<outvars, idx>>
    /\ UNCHANGED <<procvars, planvars, synthvars, usevars, llm, oracle>>

\* line 95
ReportDone(r) ==
    /\ pc[r] = "report"
    /\ idx[r] > Len(tools_to_create[r])
    /\ Emit(r, Ev("writing"))
    /\ Goto(r, "submit")
    /\ UNCHANGED <<procvars, planvars, synthvars, idx, usevars, llm, oracle>>

\* --------------------------------------------------------------- synthesis
SynthOutcomes ==
    {[raised |-> FALSE, text |-> t] : t \in Texts} \cup {[raised |-> TRUE, text |-> <<>>]}
SynthAnswers(r, n) ==
    IF n \in DOMAIN oracle[r].synth THEN {oracle[r].synth[n]}
    ELSE {o \in SynthOutcomes : \A i \in 1..Len(o.text) : o.text[i] \in scope[r].lines}

ToolName(r, i) == tools_to_create[r][i].name
\* a cancelled future counts as one that still has to run
TerminalUnlessCancelled(st) == st \in {"none", "done", "failed"}
Terminal(st) == st \in {"none", "done", "failed", "cancelled"}

\* lines 97-98: executor.map submits one future per planned capability
SynthSubmit(r) ==
    /\ pc[r] = "submit"
    /\ worker' = [worker EXCEPT ![r] =
            [n \in Names |-> IF n \in DictKeys(tools_to_create[r])
                             THEN [st |-> "pending", text |-> <<>>] ELSE @[n]]]
    /\ idx' = [idx EXCEPT ![r] = 1]
    /\ Goto(r, "collect")
    /\ UNCHANGED <<procvars, outvars, planvars, tool_fns, synth_error, usevars, llm, oracle>>

\* lines 60-65, in a pool thread: the future starts running and the model is
\* asked for the source (a started future can no longer be cancelled)
WorkerGenerate(r, n) ==
    /\ worker[r][n].st = "pending"
    /\ \E out \in SynthAnswers(r, n) :
        /\ oracle' = [oracle EXCEPT ![r].synth = MapSet(@, n, out)]
        /\ worker' = [worker EXCEPT ![r][n] =
                IF out.raised THEN [st |-> "failed", text |-> <<>>]
                ELSE [st |-> "generated", text |-> out.text]]
    /\ UNCHANGED <<procvars, pc, outvars, planvars, tool_fns, synth_error, idx, usevars, llm>>

\* the file is opened for appending
WriteFileAppend(files, n, text) ==
    MapSet(files, n, IF n \in DOMAIN files THEN files[n] \o text ELSE text)
\* the file is created once and an existing file is left as it is
WriteFileOnce(files, n, text) == IF n \in DOMAIN files THEN files ELSE MapSet(files, n, text)
\* the path of line 66: lib/tools/<name>.py, the same for every session
tool_path(r, n) == n
\* lines 66-69: open(tool_path, 'w') truncates, f.write(output_text)
WriteFile(files, n, text) == MapSet(files, n, text)

\* lines 66-70, in a pool thread
WorkerWrite(r, n) ==
    /\ worker[r][n].st = "generated"
    /\ storage' = WriteFile(storage, tool_path(r, n), worker[r][n].text)
    /\ writes' = Append(writes, [run |-> r, name |-> n, text |-> worker[r][n].text])
    /\ worker' = [worker EXCEPT ![r][n].st = "done"]
    /\ UNCHANGED <<modules, storevars, setup, pc, outvars, planvars, tool_fns,
                   synth_error, idx, usevars, llm, oracle>>

\* line 98: list(...) receives the next future's result, in submission order
CollectResult(r) ==
    /\ pc[r] = "collect"
    /\ idx[r] <= Len(tools_to_create[r])
    /\ worker[r][ToolName(r, idx[r])].st = "done"
    /\ idx' = [idx EXCEPT ![r] = @ + 1]
    /\ UNCHANGED <<procvars, pc, outvars, planvars, synthvars, usevars, llm, oracle>>

\* line 98: the next future raised; the iterator of executor.map cancels the
\* futures it has not yet returned, which stops those that have not started
CancelRest(r, w) ==
    [n \in Names |->
        IF /\ w[n].st = "pending"
           /\ \E i \in (idx[r] + 1)..Len(tools_to_create[r]) : ToolName(r, i) = n
        THEN [st |-> "cancelled", text |-> <<>>] ELSE w[n]]

CollectFail(r) ==
    /\ pc[r] = "collect"
    /\ idx[r] <= Len(tools_to_create[r])
    /\ worker[r][ToolName(r, idx[r])].st = "failed"
    /\ worker' = [worker EXCEPT ![r] = CancelRest(r, @)]
    /\ synth_error' = [synth_error EXCEPT ![r] = "SynthError"]
    /\ Goto(r, "shutdown")
    /\ UNCHANGED <<procvars, outvars, planvars, tool_fns, idx, usevars, llm, oracle>>

\* every worker's result is given the name of the last planned capability
ResultOfLast(r, i) ==
    [name |-> ToolName(r, Len(tools_to_create[r])), tool_fn |-> worker[r][ToolName(r, i)].text]
\* line 98: the lambda's value for the i-th planned capability t:
\* {'name': t['name'], 'tool_fn': self.generate_and_write_tool(t)}
ResultOf(r, i) ==
    [name |-> ToolName(r, i), tool_fn |-> worker[r][ToolName(r, i)].text]
Results(r) == [i \in 1..Len(tools_to_create[r]) |-> ResultOf(r, i)]

\* the loop stores the first result only
StoreResultsFirst(fns, results) ==
    IF results = <<>> THEN fns ELSE MapSet(fns, Head(results).name, Head(results).tool_fn)
\* lines 99-100: for result in results: tool_fns[result['name']] = result['tool_fn']
RECURSIVE StoreResults(_, _)
StoreResults(fns, results) ==
    IF results = <<>> THEN fns
    ELSE StoreResults(MapSet(fns, Head(results).name, Head(results).tool_fn), Tail(results))

\* lines 99-101: every result is in
SynthFinish(r) ==
    /\ pc[r] = "collect"
    /\ idx[r] > Len(tools_to_create[r])
    /\ tool_fns' = [tool_fns EXCEPT ![r] = StoreResults(@, Results(r))]
    /\ Emit(r, Event("finished", "", Len(Results(r)), 0, ""))
    /\ Goto(r, "persist")
    /\ UNCHANGED <<procvars, planvars, worker, synth_error, idx, usevars, llm, oracle>>

\* lines 97, 102-103: leaving the with block waits for the running workers,
\* then the exception is caught
SynthShutdown(r) ==
    /\ pc[r] = "shutdown"
    /\ \A n \in Names : Terminal(worker[r][n].st)
    /\ Emit(r, Event("synth_error", "", 0, 0, synth_error[r]))
    /\ Goto(r, "persist")
    /\ UNCHANGED <<procvars, planvars, synthvars, idx, usevars, llm, oracle>>

\* ------------------------------------------------ persistence notification
PersistOutcomes == {"ok", "raise"}
MissingSource(r) ==
    {i \in 1..Len(tools_to_create[r]) : ToolName(r, i) \notin DOMAIN tool_fns[r]}
ToolBatch(r) ==
    [i \in 1..Len(tools_to_create[r]) |->
        [name |-> ToolName(r, i),
         description |-> tools_to_create[r][i].description,
         session |-> session_id(r),
         python_source |-> tool_fns[r][ToolName(r, i)],
         creator |-> user_id(r)]]

\* the store's failure is not caught: it ends the run
PersistFatal(r) ==
    /\ pc[r] = "persist"
    /\ creation_thread' = [creation_thread EXCEPT ![r] =
            Append(@, [role |-> "user", content |-> "created",
                       output |-> [i \in 1..Len(tools_to_create[r]) |-> ToolName(r, i)]])]
    /\ IF MissingSource(r) # {}
       THEN /\ Goto(r, "aborted")
            /\ UNCHANGED <<storevars, oracle, outvars>>
       ELSE \E out \in Answers(oracle[r].persist, PersistOutcomes) :
            /\ oracle' = [oracle EXCEPT ![r].persist = <<out>>]
            /\ IF out = "raise"
               THEN /\ Goto(r, "aborted")
                    /\ UNCHANGED <<storevars, outvars>>
               ELSE /\ tools_table' = Append(tools_table, ToolBatch(r))
                    /\ UNCHANGED log_calls
                    /\ Emit(r, Ev("added"))
                    /\ Goto(r, "use_intro")
    /\ UNCHANGED <<storage, modules, writes, setup, tools_to_create, synthvars,
                   idx, usevars, llm>>

\* the message takes the place of the Planner's output in the history
RecordCreatedInPlace(thread, message) == <<thread[1], message>>
\* lines 105-108: self.creation_thread.append({...})
RecordCreated(thread, message) == Append(thread, message)

\* lines 105-125
Persist(r) ==
    /\ pc[r] = "persist"
    /\ creation_thread' = [creation_thread EXCEPT ![r] =
            RecordCreated(@, [role |-> "user", content |-> "created",
                              output |-> [i \in 1..Len(tools_to_create[r]) |-> ToolName(r, i)]])]
    /\ IF MissingSource(r) # {}
       THEN \* self.tool_fns[tool_name] raises KeyError for the first such name
            /\ Emit(r, Event("persist_failed",
                    ToolName(r, CHOOSE i \in MissingSource(r) :
                                    \A j \in MissingSource(r) : i <= j), 0, 0, "KeyError"))
            /\ UNCHANGED <<storevars, oracle>>
       ELSE \E out \in Answers(oracle[r].persist, PersistOutcomes) :
            /\ oracle' = [oracle EXCEPT ![r].persist = <<out>>]
            /\ IF out = "raise"
               THEN /\ Emit(r, Event("persist_failed", "", 0, 0, "StoreError"))
                    /\ UNCHANGED storevars
               ELSE /\ tools_table' = Append(tools_table, ToolBatch(r))
                    /\ UNCHANGED log_calls
                    /\ Emit(r, Ev("added"))
    /\ Goto(r, "use_intro")
    /\ UNCHANGED <<storage, modules, writes, setup, tools_to_create, synthvars,
                   idx, usevars, llm>>

\* ------------------------------------------------------ invocation planning
\* line 129
UseIntro(r) ==
    /\ pc[r] = "use_intro"
    /\ Emit(r, Ev("now_use"))
    /\ Goto(r, "analyze")
    /\ UNCHANGED <<procvars, planvars, synthvars, idx, usevars, llm, oracle>>

\* the Invoker is called whatever the mapping holds
AfterAnalyzeUnchecked(r) == "invoke"
\* line 134: if len(self.tools_to_create) == 0
AfterAnalyze(r) == IF Len(tools_to_create[r]) = 0 THEN "no_tools" ELSE "invoke"

\* lines 130-131
Analyze(r) ==
    /\ pc[r] = "analyze"
    /\ response_thread' = [response_thread EXCEPT ![r] =
            Append(@, [role |-> "user", content |-> user_request(r)])]
    /\ Emit(r, Ev("analyzing"))
    /\ Goto(r, AfterAnalyze(r))
    /\ UNCHANGED <<procvars, planvars, synthvars, idx, use_tool_output, new_fn_invocations,
                   bound, response_tool_call_results, pending_error, invoked, llm, oracle>>

\* the empty mapping sends the run back to planning
NoToolsRetry(r) ==
    /\ pc[r] = "no_tools"
    /\ Emit(r, Ev("no_tools"))
    /\ Goto(r, "plan")
    /\ UNCHANGED <<procvars, planvars, synthvars, idx, usevars, llm, oracle>>

\* lines 134-135: the event is yielded and the generator goes on
NoToolsWarn(r) ==
    /\ pc[r] = "no_tools"
    /\ Emit(r, Ev("no_tools"))
    /\ Goto(r, "invoke")
    /\ UNCHANGED <<procvars, planvars, synthvars, idx, usevars, llm, oracle>>

AllowedTools(r) == [i \in 1..Len(tools_to_create[r]) |-> ToolName(r, i)]

\* only the function calls collected in response_items are appended
ExtendThreadCalls(thread, output) == thread \o SelectSeq(output, IsFunctionCall)
\* line 156: self.response_thread += use_tool_response.output
ExtendThread(thread, output) == thread \o output

\* lines 137-156
InvokerCall(r) ==
    /\ pc[r] = "invoke"
    /\ \E out \in InvokerAnswers(r) :
        /\ oracle' = [oracle EXCEPT ![r].invoker = <<out>>]
        /\ llm' = [llm EXCEPT ![r] = Append(@,
                [kind |-> "invoker", input |-> response_thread[r],
                 tools |-> AllowedTools(r), mode |-> "required"])]
        /\ IF out.raised
           THEN /\ Goto(r, "aborted")
                /\ UNCHANGED <<response_thread, use_tool_output>>
           ELSE /\ use_tool_output' = [use_tool_output EXCEPT ![r] = out.output]
                /\ response_thread' = [response_thread EXCEPT ![r] = ExtendThread(@, out.output)]
                /\ Goto(r, "extract")
    /\ UNCHANGED <<procvars, outvars, planvars, synthvars, idx, new_fn_invocations, bound,
                   response_tool_call_results, pending_error, invoked>>

\* ---------------------------------------------------------- call extraction
Invocations(output) ==
    LET calls == SelectSeq(output, IsFunctionCall)
    IN  [i \in 1..Len(calls) |-> [item |-> calls[i], args |-> json_loads(calls[i].arguments)]]

\* lines 158-168
ExtractCalls(r) ==
    /\ pc[r] = "extract"
    /\ IF \E i \in 1..Len(use_tool_output[r]) :
            /\ IsFunctionCall(use_tool_output[r][i])
            /\ ~IsJson(use_tool_output[r][i].arguments)
       THEN \* line 162 is in no try block: JSONDecodeError ends the run
            /\ Goto(r, "aborted")
            /\ UNCHANGED <<outvars, new_fn_invocations>>
       ELSE LET invs == Invocations(use_tool_output[r])
            IN  /\ new_fn_invocations' = [new_fn_invocations EXCEPT ![r] = invs]
                /\ IF Len(invs) > 0
                   THEN Emit(r, Event("need_exec", "", Len(invs), 0, ""))
                   ELSE Emit(r, Ev("no_exec"))
                /\ Goto(r, IF Len(invs) > 0 THEN "import_next" ELSE "aggregate")
    /\ idx' = [idx EXCEPT ![r] = 1]
    /\ UNCHANGED <<procvars, planvars, synthvars, response_thread, use_tool_output, bound,
                   response_tool_call_results, pending_error, invoked, llm, oracle>>

\* -------------------------------------------------------- dynamic execution
NumCalls(r) == Len(new_fn_invocations[r])
CallName(r, i) == new_fn_invocations[r][i].item.name

\* the load step is not announced
ImportAnnounceSilent(r) ==
    /\ pc[r] = "import_next"
    /\ Goto(r, "import_do")
    /\ UNCHANGED <<procvars, outvars, planvars, synthvars, idx, usevars, llm, oracle>>

\* line 172
ImportAnnounce(r) ==
    /\ pc[r] = "import_next"
    /\ Emit(r, Event("importing", CallName(r, idx[r]), 0, 0, ""))
    /\ Goto(r, "import_do")
    /\ UNCHANGED <<procvars, planvars, synthvars, idx, usevars, llm, oracle>>

\* from lib.tools.<n> import <n>: the module cache answers first, then the
\* file, which has to be a module that defines n
Compiles(text) == text[Len(text)] # "broken"
Importable(n) == n \in DOMAIN modules \/ (n \in DOMAIN storage /\ Compiles(storage[n]))
Imported(n) == IF n \in DOMAIN modules THEN modules[n] ELSE storage[n]

\* the call step of a request follows its load step at once
AfterLoadExecute(r) == "exec_next"
\* lines 171, 178, 182: the load loop goes on to the next request, and the
\* execution loop begins when the load loop has ended
AfterLoad(r) == IF idx[r] = NumCalls(r) THEN "exec_next" ELSE "import_next"

\* lines 173-178, and the loop's end: line 181
ImportDo(r) ==
    /\ pc[r] = "import_do"
    /\ LET n == CallName(r, idx[r])
       IN  IF Importable(n)
           THEN /\ modules' = MapSet(modules, n, Imported(n))
                /\ bound' = [bound EXCEPT ![r] = MapSet(@, n, Imported(n))]
                /\ Emit(r, Event("imported", n, 0, 0, ""))
           ELSE /\ Emit(r, Event("import_error", n, 0, 0, "ImportError"))
                /\ UNCHANGED <<modules, bound>>
    /\ idx' = [idx EXCEPT ![r] = IF @ = NumCalls(r) THEN 1 ELSE @ + 1]
    /\ Goto(r, AfterLoad(r))
    /\ UNCHANGED <<storage, storevars, writes, setup, planvars, synthvars,
                   response_thread, use_tool_output, new_fn_invocations,
                   response_tool_call_results, pending_error, invoked, llm, oracle>>

\* line 191 runs when the generator is resumed after the error event of line 190:
\* pending_error holds the result it is about to append
\* the error result is put in front of the results
SettledInFront(r) == pending_error[r] \o response_tool_call_results[r]
Settled(r) == response_tool_call_results[r] \o pending_error[r]

\* line 183 (after line 191 of the previous iteration)
ExecAnnounce(r) ==
    /\ pc[r] = "exec_next"
    /\ response_tool_call_results' = [response_tool_call_results EXCEPT ![r] = Settled(r)]
    /\ pending_error' = [pending_error EXCEPT ![r] = <<>>]
    /\ Emit(r, Event("executing", CallName(r, idx[r]), idx[r], NumCalls(r), ""))
    /\ Goto(r, "exec_do")
    /\ UNCHANGED <<procvars, planvars, synthvars, idx, response_thread, use_tool_output,
                   new_fn_invocations, bound, invoked, llm, oracle>>

\* a name that no import has bound is looked up nowhere else
ResolveBoundOnly(r, name) ==
    IF name \in DOMAIN bound[r] THEN <<bound[r][name]>> ELSE <<>>
\* line 185: eval looks the name up in run's namespace, where exec bound the
\* imported functions, then in the module's globals and in the builtins
Resolve(r, name) ==
    IF name \in DOMAIN bound[r] THEN <<bound[r][name]>>
    ELSE IF name \in Builtins THEN <<<<"builtin">>>>
    ELSE <<>>

\* the builtin function pow
BuiltinApply(args) == [raised |-> FALSE, kind |-> "int", int |-> args.a ^ args.b, msg |-> ""]

\* eval("<name>(**args)"): what the call does, as [raised, kind, int, msg]
Eval(r, name, args) ==
    LET found == Resolve(r, name)
    IN  IF found = <<>>
        THEN [raised |-> TRUE, kind |-> "none", int |-> 0, msg |-> "NameError"]
        ELSE IF found[1] = <<"builtin">> THEN BuiltinApply(args)
        ELSE Apply(found[1], args)

\* the except branch reports the error and records nothing
ErrorResultDropped(call_id, failure) == <<>>
\* line 191: the except branch records the error as this call's result
ErrorResult(call_id, failure) == <<CallResult(call_id, JsonError(failure))>>

\* the except branch leaves the loop
AfterFailureBreak(r) == NumCalls(r) + 1
\* lines 188-191: the except branch ends the iteration, not the loop
AfterFailure(r) == idx[r] + 1

\* every iteration takes the first request
InvocationFirst(r) == new_fn_invocations[r][1]
\* line 182: for i, invocation in enumerate(new_fn_invocations)
Invocation(r) == new_fn_invocations[r][idx[r]]

\* lines 184-190
ExecDo(r) ==
    /\ pc[r] = "exec_do"
    /\ LET inv == Invocation(r)
           name == inv.item.name
           out == Eval(r, name, inv.args)
           failure == IF out.raised THEN out.msg
                      ELSE IF ~Serializable(out) THEN "TypeError" ELSE ""
           next == IF failure = "" THEN idx[r] + 1 ELSE AfterFailure(r)
       IN  /\ invoked' = [invoked EXCEPT ![r] =
                    IF Resolve(r, name) # <<>>
                    THEN Append(@, [name |-> name, args |-> inv.args,
                                    content |-> Resolve(r, name)[1],
                                    call_id |-> inv.item.call_id])
                    ELSE @]
           /\ IF failure = ""
              THEN /\ response_tool_call_results' = [response_tool_call_results EXCEPT ![r] =
                            Append(@, CallResult(inv.item.call_id, JsonNumber(out.int)))]
                   /\ Emit(r, Event("completed", name, 0, 0, ""))
                   /\ UNCHANGED pending_error
              ELSE /\ Emit(r, Event("exec_error", name, 0, 0, failure))
                   /\ pending_error' = [pending_error EXCEPT ![r] =
                            ErrorResult(inv.item.call_id, failure)]
                   /\ UNCHANGED response_tool_call_results
           /\ idx' = [idx EXCEPT ![r] = next]
           /\ Goto(r, IF next > NumCalls(r) THEN "aggregate" ELSE "exec_next")
    /\ UNCHANGED <<procvars, planvars, synthvars, response_thread, use_tool_output,
                   new_fn_invocations, bound, llm, oracle>>

\* -------------------------------------------------------- result aggregation
\* lines 191-195
Aggregate(r) ==
    /\ pc[r] = "aggregate"
    /\ response_tool_call_results' = [response_tool_call_results EXCEPT ![r] = Settled(r)]
    /\ pending_error' = [pending_error EXCEPT ![r] = <<>>]
    /\ response_thread' = [response_thread EXCEPT ![r] = @ \o Settled(r)]
    /\ Emit(r, Ev("processing"))
    /\ Goto(r, "summarize")
    /\ UNCHANGED <<procvars, planvars, synthvars, idx, use_tool_output, new_fn_invocations,
                   bound, invoked, llm, oracle>>

\* ------------------------------------------------------------ summarization
SummaryOutcomes ==
    {[raised |-> FALSE, text |-> t] : t \in SummaryTexts} \cup {[raised |-> TRUE, text |-> ""]}

\* the answer is returned, not yielded
SummarizeSilent(r) ==
    /\ pc[r] = "summarize"
    /\ \E out \in Answers(oracle[r].summary, SummaryOutcomes) :
        /\ oracle' = [oracle EXCEPT ![r].summary = <<out>>]
        /\ llm' = [llm EXCEPT ![r] = Append(@,
                [kind |-> "summarizer", input |-> response_thread[r],
                 tools |-> <<>>, mode |-> "none"])]
        /\ Goto(r, IF out.raised THEN "aborted" ELSE "done")
    /\ UNCHANGED <<procvars, outvars, planvars, synthvars, idx, usevars>>

\* lines 197-203
Summarize(r) ==
    /\ pc[r] = "summarize"
    /\ \E out \in Answers(oracle[r].summary, SummaryOutcomes) :
        /\ oracle' = [oracle EXCEPT ![r].summary = <<out>>]
        /\ llm' = [llm EXCEPT ![r] = Append(@,
                [kind |-> "summarizer", input |-> response_thread[r],
                 tools |-> <<>>, mode |-> "none"])]
        /\ IF out.raised
           THEN /\ Goto(r, "aborted")
                /\ UNCHANGED outvars
           ELSE /\ Emit(r, Event("final", "", 0, 0, out.text))
                /\ Goto(r, "done")
    /\ UNCHANGED <<procvars, planvars, synthvars, idx, usevars>>

\* -------------------------------------------------------------- session log
\* api.py lines 42-44: update({"session_log": all_messages}).eq("id", session_id)
LogUpdate(r) == [session |-> session_id(r), session_log |-> all_messages[r]]

\* the log is sent in a finally block, whether run returned or raised
SequenceEndedOrRaised(r) == pc[r] \in {"done", "aborted"}
\* api.py line 38: the async for ends when run returns; an exception of run
\* leaves run_toolbelt_session before line 42
SequenceEnded(r) == pc[r] = "done"

\* api.py lines 38, 42-44: the wrapper asks for the next message, run's
\* sequence ends, and the wrapper sends the log
WriteLog(r) ==
    /\ SequenceEnded(r)
    /\ log_calls[r] = <<>>
    /\ log_calls' = [log_calls EXCEPT ![r] = Append(@, LogUpdate(r))]
    /\ UNCHANGED <<storage, modules, tools_table, writes, setup, pc, outvars, planvars,
                   synthvars, idx, usevars, llm, oracle>>

\* ----------------------------------------------------------- specifications
\* a step of a thread of run r's synthesis pool
WorkerStep(r) ==
    \/ \E n \in Names : WorkerGenerate(r, n)
    \/ \E n \in Names : WorkerWrite(r, n)

\* a step of run r's generator, in the thread that iterates it
GenStep(r) ==
    \/ Start(r)
    \/ PlannerCall(r)
    \/ ReportTool(r)
    \/ ReportDone(r)
    \/ SynthSubmit(r)
    \/ CollectResult(r)
    \/ CollectFail(r)
    \/ SynthFinish(r)
    \/ SynthShutdown(r)
    \/ Persist(r)
    \/ UseIntro(r)
    \/ Analyze(r)
    \/ NoToolsWarn(r)
    \/ InvokerCall(r)
    \/ ExtractCalls(r)
    \/ ImportAnnounce(r)
    \/ ImportDo(r)
    \/ ExecAnnounce(r)
    \/ ExecDo(r)
    \/ Aggregate(r)
    \/ Summarize(r)
    \/ WriteLog(r)

RunStep(r) == GenStep(r) \/ WorkerStep(r)

\* One request served by a fresh process.
Next == RunStep(1)
Spec == Init /\ [][Next]_vars

\* the request is over: run raised, or its sequence ended and the log was sent
Ended(r) == pc[r] = "aborted" \/ (pc[r] = "done" /\ log_calls[r] # <<>>)

\* The consumer iterates the generator to its end (api.py line 38) and the
\* pool's threads run the futures they were given: a step that can be taken
\* is taken, and every collaborator call returns or raises.
SpecLive == Init /\ [][Next]_vars /\ WF_vars(Next)

\* api.py line 35: the process serves its next request with a new session
NextRequest ==
    /\ Ended(1)
    /\ pc[2] = "unborn"
    /\ pc' = [pc EXCEPT ![2] = "idle"]
    /\ UNCHANGED <<procvars, outvars, planvars, synthvars, idx, usevars, llm, oracle>>

\* Two requests served one after the other by one process.
SeqInit ==
    /\ RunInit
    /\ storage0 \in InitStorages
    /\ ProcInit
    /\ scope = [r \in Runs |-> [specs |-> SeqSpecs, calls |-> SeqCalls, lines |-> TwoRunLines, loose |-> FALSE]]
SeqNext == RunStep(1) \/ NextRequest \/ RunStep(2)
SpecSeq == SeqInit /\ [][SeqNext]_vars

\* The same request served again by a fresh process that starts from the
\* same files and whose mocked collaborators answer as they did before.
Rerun ==
    /\ Ended(1)
    /\ pc[2] = "unborn"
    /\ pc' = [pc EXCEPT ![2] = "idle"]
    /\ storage' = storage0
    /\ modules' = EmptyMap
    /\ tools_table' = <<>>
    /\ UNCHANGED log_calls
    /\ writes' = <<>>
    /\ oracle' = [oracle EXCEPT ![2] = oracle[1]]
    /\ UNCHANGED <<setup, outvars, planvars, synthvars, idx, usevars, llm>>

ReplayInit ==
    /\ RunInit
    /\ storage0 \in InitStorages
    /\ ProcInit
    /\ scope = [r \in Runs |-> [specs |-> MaxSpecs, calls |-> SeqCalls, lines |-> TwoRunLines, loose |-> FALSE]]
ReplayNext == RunStep(1) \/ Rerun \/ RunStep(2)
SpecReplay == ReplayInit /\ [][ReplayNext]_vars

\* Two requests served at the same time by one process.  The generators run
\* in the one thread of the event loop: between two yields a generator is
\* not interrupted, and while one waits for its pool (lines 97-98 block the
\* thread) no other generator runs; the pool's threads run beside it.
MidSegment(r) == pc[r] \in {"collect", "shutdown", "extract"}
LoopFree(r) == \A q \in Runs \ {r} : ~MidSegment(q)
ConcInit ==
    /\ SessionInit
    /\ pc = [r \in Runs |-> "idle"]
    /\ storage0 \in InitStorages
    /\ ProcInit
    /\ scope = [r \in Runs |-> [specs |-> SeqSpecs, calls |-> SeqCalls, lines |-> TwoRunLines, loose |-> FALSE]]
ConcNext == \E r \in Runs : (LoopFree(r) /\ GenStep(r)) \/ WorkerStep(r)
SpecConc == ConcInit /\ [][ConcNext]_vars

\* One request whose consumer may stop iterating (test_api.py lines 31-35:
\* break after the first messages).  The consumer has control only while
\* the generator is suspended at a yield, or before its first step.
Abandon(r) ==
    /\ pc[r] \notin {"unborn", "closed"}
    /\ ~Ended(r)
    /\ ~MidSegment(r)
    /\ Goto(r, "closed")
    /\ UNCHANGED <<procvars, outvars, planvars, synthvars, idx, usevars, llm, oracle>>
ConsumeInit ==
    /\ RunInit
    /\ storage0 \in InitStorages
    /\ ProcInit
    /\ scope = [r \in Runs |-> [specs |-> SeqSpecs, calls |-> SeqCalls, lines |-> TwoRunLines, loose |-> FALSE]]
ConsumeNext == RunStep(1) \/ Abandon(1)
SpecConsume == ConsumeInit /\ [][ConsumeNext]_vars

\* One request whose collaborators may also return outputs that are not well
\* formed (JSON candidates that are no specifications, function calls whose
\* arguments are not JSON) and whose Planner may deliver a specification as
\* a structured function call.
LooseInit ==
    /\ RunInit
    /\ storage0 \in InitStorages
    /\ ProcInit
    /\ scope = [r \in Runs |-> [specs |-> MaxSpecs, calls |-> MaxCalls, lines |-> TwoRunLines, loose |-> TRUE]]
LooseNext == RunStep(1)
SpecLoose == LooseInit /\ [][LooseNext]_vars

\* extract_tool_specs applied to a model text (lines 18-44).
ExtractInit ==
    /\ SessionInit
    /\ pc = [r \in Runs |-> "unborn"]
    /\ storage0 \in InitStorages
    /\ storage = storage0
    /\ modules = EmptyMap
    /\ tools_table = <<>>
    /\ writes = <<>>
    /\ scope = [r \in Runs |-> [specs |-> MaxSpecs, calls |-> MaxCalls, lines |-> Lines, loose |-> FALSE]]
    /\ written \in ModelTexts
    /\ content = Flatten(written)
    /\ extracted = NotExtracted
ExtractCall ==
    /\ ~extracted.returned
    /\ extracted' = [returned |-> TRUE, tool_specs |-> extract_tool_specs(Matches(content))]
    /\ UNCHANGED <<storage, modules, storevars, writes, storage0, scope, textvars,
                   pc, outvars, planvars, synthvars, idx, usevars, llm, oracle>>
ExtractNext == ExtractCall
SpecExtract == ExtractInit /\ [][ExtractNext]_vars

\* ================================================================== claims
EventTypes(r) == {events[r][i].type : i \in 1..Len(events[r])}
HasEvent(r, type) == type \in EventTypes(r)
Calls(r, kind) == {j \in 1..Len(llm[r]) : llm[r][j].kind = kind}
LoopEnded(r) == HasEvent(r, "processing")
ResultOutputs(r) ==
    {response_tool_call_results[r][k].output.json : k \in 1..Len(response_tool_call_results[r])}

\* C1: when the execution loop has ended, response_tool_call_results holds
\* exactly one entry per extracted Call Request, the k-th entry carrying the
\* k-th request's call identifier, whether the call succeeded, raised or
\* returned a value that could not be serialized.
C1_OneResultPerCall ==
    \A r \in Runs :
        LoopEnded(r) =>
            LET requests == SelectSeq(use_tool_output[r], IsFunctionCall)
                results == response_tool_call_results[r]
            IN  /\ Len(results) = Len(requests)
                /\ \A k \in 1..Len(requests) : results[k].call_id = requests[k].call_id

\* a finished loop of two requests, one of them failed and one succeeded
C1_Witness ==
    /\ LoopEnded(1)
    /\ NumCalls(1) = 2
    /\ ResultOutputs(1) = {"number", "object"}
    /\ \E i \in 1..Len(events[1]) :
        events[1][i].type = "exec_error" /\ events[1][i].msg = "TypeError"

\* C2: the synthesis error event is the last event of its run, and after it
\* the Invoker is never called and no Call Request is loaded or invoked.
C2_SynthErrorHalts ==
    \A r \in Runs : \A i \in 1..Len(events[r]) :
        events[r][i].type = "synth_error" =>
            /\ i = Len(events[r])
            /\ Calls(r, "invoker") = {}
            /\ new_fn_invocations[r] = <<>>
            /\ invoked[r] = <<>>

\* C3: with an empty capability mapping the 'No tools were created' event is
\* the last event of the run and the Invoker model call is never made.
C3_NoToolsHalts ==
    \A r \in Runs : \A i \in 1..Len(events[r]) :
        events[r][i].type = "no_tools" =>
            /\ i = Len(events[r])
            /\ Calls(r, "invoker") = {}

\* C4: a request whose capability was loaded and runs (its function returns
\* a serializable value) has, when the loop has ended, its own Call Result
\* recorded: its call identifier with the encoded value of its own
\* arguments, whatever happened to the other requests of the run.
Healthy(r, k) ==
    /\ CallName(r, k) \in DOMAIN bound[r]
    /\ bound[r][CallName(r, k)][Len(bound[r][CallName(r, k)])] = "ok"
C4_FailureIsolated ==
    \A r \in Runs :
        LoopEnded(r) =>
            \A k \in 1..NumCalls(r) :
                Healthy(r, k) =>
                    /\ k <= Len(response_tool_call_results[r])
                    /\ response_tool_call_results[r][k] =
                        [type |-> "function_call_output",
                         call_id |-> new_fn_invocations[r][k].item.call_id,
                         output |-> [json |-> "number",
                                     int |-> new_fn_invocations[r][k].item.arguments.a
                                             + new_fn_invocations[r][k].item.arguments.b,
                                     error |-> ""]]

\* the first request could not be loaded, the second ran and was recorded
C4_Witness ==
    /\ LoopEnded(1)
    /\ NumCalls(1) = 2
    /\ CallName(1, 1) \notin DOMAIN bound[1]
    /\ HasEvent(1, "import_error")
    /\ Healthy(1, 2)
    /\ response_tool_call_results[1][2].output.int = 6

\* C5: a run that ends without an uncaught failure has emitted exactly one
\* final-answer event, carrying the Summarizer's output, and in every state
\* a final-answer event is the last element of the event sequence.
Finals(r) == {i \in 1..Len(events[r]) : events[r][i].type = "final"}
C5_FinalAnswerLast ==
    \A r \in Runs :
        /\ \A i \in Finals(r) : i = Len(events[r])
        /\ pc[r] = "done" =>
            /\ Cardinality(Finals(r)) = 1
            /\ events[r][Len(events[r])].msg = oracle[r].summary[1].text

C5_Witness ==
    /\ pc[1] = "done"
    /\ events[1][Len(events[1])] = Event("final", "", 0, 0, "answer_2")
    /\ NumCalls(1) = 2

\* C6: the segments of a run are executed in the order of the phases
\* planning, reporting, synthesis, persistence notification, invocation
\* planning, call extraction, dynamic execution, result aggregation,
\* summarization: a step never leads to a segment of an earlier phase, and it
\* leads at most to the next phase, dynamic execution alone being passed
\* over when there is no Call Request.
PhaseOf(label) ==
    CASE label \in {"unborn", "idle", "plan"} -> 1
      [] label = "report" -> 2
      [] label \in {"submit", "collect", "shutdown"} -> 3
      [] label = "persist" -> 4
      [] label \in {"use_intro", "analyze", "no_tools", "invoke"} -> 5
      [] label = "extract" -> 6
      [] label \in {"import_next", "import_do", "exec_next", "exec_do"} -> 7
      [] label = "aggregate" -> 8
      [] label = "summarize" -> 9
      [] OTHER -> 10
C6_PhaseOrder ==
    [][\A r \in Runs :
        pc'[r] # "aborted" =>
            \/ PhaseOf(pc'[r]) = PhaseOf(pc[r])
            \/ PhaseOf(pc'[r]) = PhaseOf(pc[r]) + 1
            \/ /\ pc[r] = "extract" /\ pc'[r] = "aggregate"
               /\ new_fn_invocations'[r] = <<>>]_vars

\* a finished run that went through every phase
C6_Witness ==
    /\ pc[1] = "done"
    /\ {"tool", "finished", "added", "need_exec", "completed", "processing"}
            \subseteq EventTypes(1)

\* C7: after planning the capability mapping has exactly one entry per
\* distinct extracted name, and the entry of a name is the last extracted
\* specification of that name.
Planned(r) == Len(oracle[r].planner) = 1 /\ ~oracle[r].planner[1].raised
Extracted(r) == extract_tool_specs(oracle[r].planner[1].text)
LastOf(specs, name) ==
    specs[CHOOSE i \in 1..Len(specs) :
            /\ specs[i].name = name
            /\ \A j \in 1..Len(specs) : specs[j].name = name => j <= i]
C7_LastWriteWins ==
    \A r \in Runs :
        (Planned(r) /\ \A i \in 1..Len(Extracted(r)) : Extracted(r)[i].name # "") =>
            LET specs == Extracted(r)
                names == {specs[i].name : i \in 1..Len(specs)}
            IN  /\ DictKeys(tools_to_create[r]) = names
                /\ Len(tools_to_create[r]) = Cardinality(names)
                /\ \A i \in 1..Len(tools_to_create[r]) :
                    tools_to_create[r][i] = LastOf(specs, tools_to_create[r][i].name)

\* two specifications of one name were extracted; the second is the entry
C7_Witness ==
    /\ Planned(1)
    /\ Len(Extracted(1)) = 2
    /\ Extracted(1)[1].name = Extracted(1)[2].name
    /\ tools_to_create[1] = <<Extracted(1)[2]>>

\* C8: two runs of the same request, started from the same files with
\* collaborators that answer the same inputs the same way, have emitted the
\* same events when both have ended, whatever the schedule of the workers.
C8_SameEvents ==
    (Ended(1) /\ Ended(2)) => events[1] = events[2]

\* C9: the stored source of a name is exactly the text of the last
\* synthesis written for it: a write replaces what the file held.
WritesOf(n) == {i \in 1..Len(writes) : writes[i].name = n}
LastWrite(n) == writes[CHOOSE i \in WritesOf(n) : \A j \in WritesOf(n) : j <= i]
C9_WriteReplaces ==
    \A n \in Names :
        WritesOf(n) # {} => (n \in DOMAIN storage /\ storage[n] = LastWrite(n).text)

\* a name that had source s1 was synthesized again with another text s2
C9_Witness ==
    \E n \in Names :
        /\ n \in DOMAIN storage0
        /\ WritesOf(n) # {}
        /\ LastWrite(n).text # storage0[n]
        /\ storage[n] = LastWrite(n).text

\* C10: when the Planner returned one specification n, the Synthesizer wrote
\* a working implementation of n and the Invoker returned one Call Request
\* for n with arguments {a: 2, b: 3}, the finished run has recorded exactly
\* one Call Result, with that request's call identifier and the output 5;
\* the result is in the history the Summarizer was given, and the final
\* event carries the Summarizer's output.
Scenario(r, n) ==
    /\ Planned(r)
    /\ Len(oracle[r].planner[1].text) = 1
    /\ Extracted(r) = <<[name |-> n, description |-> 1]>>
    /\ worker[r][n] = [st |-> "done", text |-> <<"ok">>]
    /\ use_tool_output[r] = <<CallItem(n, 1)>>
C10_EndToEnd ==
    \A r \in Runs : \A n \in Names :
        (Scenario(r, n) /\ pc[r] = "done") =>
            LET result == CallResult(1, JsonNumber(5))
                summary == llm[r][CHOOSE j \in Calls(r, "summarizer") : TRUE]
            IN  /\ response_tool_call_results[r] = <<result>>
                /\ summary.input[Len(summary.input)] = result
                /\ events[r][Len(events[r])] =
                        Event("final", "", 0, 0, oracle[r].summary[1].text)

\* C11: the step that attempts to record the capabilities emits exactly one
\* event, the success event or the failure event; when the attempt raises,
\* the run goes on to invocation planning, nothing is recorded, and the
\* capability mapping, the name-to-source mapping and both histories are as
\* they were when the attempt began (the planning history already holding
\* the message of lines 105-108).  A run that is past the phase has emitted
\* exactly one of the two events, a run before it none.
PersistEvents(r) ==
    {i \in 1..Len(events[r]) : events[r][i].type \in {"added", "persist_failed"}}
CreatedMessage(r) ==
    [role |-> "user", content |-> "created",
     output |-> [i \in 1..Len(tools_to_create[r]) |-> tools_to_create[r][i].name]]
C11_PersistStep(r) ==
    /\ Len(events'[r]) = Len(events[r]) + 1
    /\ SubSeq(events'[r], 1, Len(events[r])) = events[r]
    /\ Cardinality(PersistEvents(r)') = 1
    /\ events'[r][Len(events'[r])].type = "persist_failed" =>
        /\ pc'[r] = "use_intro"
        /\ tools_table' = tools_table
        /\ tools_to_create'[r] = tools_to_create[r]
        /\ tool_fns'[r] = tool_fns[r]
        /\ creation_thread'[r] = Append(creation_thread[r], CreatedMessage(r))
        /\ response_thread'[r] = response_thread[r]
C11_PersistNonFatal ==
    [][\A r \in Runs :
        /\ pc[r] = "persist" /\ pc'[r] # "persist" => C11_PersistStep(r)
        /\ pc[r] # "persist" => PersistEvents(r)' = PersistEvents(r)
        /\ PhaseOf(pc[r]) <= 4 => PersistEvents(r) = {}]_vars

\* the session store raised for a run whose capabilities were all
\* synthesized, and the run went on to call the Invoker
C11_Witness ==
    /\ \E i \in 1..Len(events[1]) :
        events[1][i].type = "persist_failed" /\ events[1][i].msg = "StoreError"
    /\ DOMAIN tool_fns[1] = Names
    /\ Calls(1, "invoker") # {}
    /\ tools_table = <<>>

\* C12: every run terminates: it reaches the end of the generator (after the
\* final event) or a halt, and stays there, so its event sequence is finite;
\* this includes the run whose planning yields no specification.
C12_Terminates ==
    <>[](\A r \in Runs : pc[r] = "unborn" \/ Ended(r))

\* a run whose planning yielded no specification has ended after its final event
C12_Witness ==
    /\ pc[1] = "done"
    /\ Planned(1)
    /\ tools_to_create[1] = <<>>
    /\ events[1][Len(events[1])].type = "final"
    /\ HasEvent(1, "no_tools")

\* C13: capabilities are invoked one at a time in the order of the Call
\* Requests in the Invoker's output: the invocations made so far are of
\* requests in increasing position, and a request is invoked only when every
\* earlier request has its result.  The k-th result recorded carries the
\* k-th request's call identifier, and result aggregation appends the
\* results to the execution history in that order, after the Invoker's items.
Requests(r) == SelectSeq(use_tool_output[r], IsFunctionCall)
Pos(r, call_id) == CHOOSE k \in 1..Len(Requests(r)) : Requests(r)[k].call_id = call_id
C13_SequentialOrder ==
    \A r \in Runs :
        LET results == response_tool_call_results[r]
            recorded == Len(results) + Len(pending_error[r])
            history == response_thread[r]
        IN  /\ Len(results) <= Len(Requests(r))
            /\ \A k \in 1..Len(results) : results[k].call_id = Requests(r)[k].call_id
            /\ \A i \in 1..Len(invoked[r]) :
                /\ Pos(r, invoked[r][i].call_id) <= recorded
                /\ \A j \in 1..Len(invoked[r]) :
                    i < j => Pos(r, invoked[r][i].call_id) < Pos(r, invoked[r][j].call_id)
            /\ LoopEnded(r) =>
                history = <<history[1]>> \o use_tool_output[r] \o results

\* two requests were invoked, the first returned and the second raised, and
\* both results are in the execution history in the order of the requests
C13_Witness ==
    /\ LoopEnded(1)
    /\ Len(invoked[1]) = 2
    /\ invoked[1][1].name # invoked[1][2].name
    /\ response_tool_call_results[1][1].output.json = "number"
    /\ response_tool_call_results[1][2].output.error = "ToolError"
    /\ response_thread[1][Len(response_thread[1])] = response_tool_call_results[1][2]

\* C14: the storage is keyed by name alone and shared by the runs: whichever
\* runs wrote a name, the source stored under it is the text written last,
\* and what a run has loaded under a name is a source some run (or an
\* earlier process) stored under that name, not necessarily its own.
SourcesOf(n) ==
    {writes[i].text : i \in WritesOf(n)}
        \cup (IF n \in DOMAIN storage0 THEN {storage0[n]} ELSE {})
C14_SharedNamespace ==
    \A n \in Names :
        /\ WritesOf(n) # {} => (n \in DOMAIN storage /\ storage[n] = LastWrite(n).text)
        /\ n \in DOMAIN storage =>
                storage[n] = IF WritesOf(n) # {} THEN LastWrite(n).text ELSE storage0[n]
        /\ \A r \in Runs : n \in DOMAIN bound[r] => bound[r][n] \in SourcesOf(n)

\* both runs planned and synthesized the name n, with different texts; the
\* second run's text was written last, and the first run invoked it
C14_Witness ==
    \E n \in Names \ DOMAIN storage0 :
        /\ worker[1][n].st = "done" /\ worker[2][n].st = "done"
        /\ worker[1][n].text # worker[2][n].text
        /\ LastWrite(n).run = 2
        /\ \E i \in 1..Len(invoked[1]) :
            invoked[1][i].name = n /\ invoked[1][i].content = worker[2][n].text

\* C15: when the synthesis of a run has completed without error, whatever
\* the order in which the pool's threads ran, each planned name's entry in
\* tool_fns and the source stored under that name are both the text the
\* model generated for that name, and tool_fns has no other entry.
Generated(r, n) == oracle[r].synth[n].text
C15_WorkersAttributed ==
    \A r \in Runs :
        HasEvent(r, "finished") =>
            /\ DOMAIN tool_fns[r] = DictKeys(tools_to_create[r])
            /\ \A n \in DictKeys(tools_to_create[r]) :
                /\ ~oracle[r].synth[n].raised
                /\ tool_fns[r][n] = Generated(r, n)
                /\ n \in DOMAIN storage /\ storage[n] = Generated(r, n)
                /\ Cardinality(WritesOf(n)) = 1

\* two capabilities with different generated texts, the threads having
\* written them in the order opposite to the order they were planned in
C15_Witness ==
    /\ HasEvent(1, "finished")
    /\ Len(tools_to_create[1]) = 2
    /\ Generated(1, ToolName(1, 1)) # Generated(1, ToolName(1, 2))
    /\ Len(writes) = 2
    /\ writes[1].name = ToolName(1, 2)
    /\ tool_fns[1][ToolName(1, 1)] = writes[2].text

\* C16: a step of one run leaves every other run's planning history,
\* execution history, capability mapping, name-to-source mapping and events
\* unchanged, and the runs share nothing but the capability storage and the
\* session store: what a step of a run loads under a name is what the
\* shared storage holds under that name.
StepOf(q) == GenStep(q) \/ WorkerStep(q)
OthersUnchanged(q) ==
    \A r \in Runs \ {q} :
        UNCHANGED <<creation_thread[r], response_thread[r], tools_to_create[r],
                    tool_fns[r], events[r]>>
LoadsStored(q) ==
    \A n \in DOMAIN bound'[q] \ DOMAIN bound[q] :
        n \in DOMAIN storage /\ bound'[q][n] = storage[n]
C16_Independent ==
    [][\A q \in Runs : StepOf(q) => (OthersUnchanged(q) /\ LoadsStored(q))]_vars

\* C17: for a text whose candidates are each closed by their marker,
\* extract_tool_specs returns the specifications of the candidates whose
\* content is valid JSON, in their order in the text and as written: a
\* malformed candidate (other text, nothing, or two values between the
\* markers) is left out and changes nothing else.
IsValidPart(part) == part.valid
WellDelimited(parts) == \A i \in 1..Len(parts) : parts[i].delimited
Expected(parts) ==
    LET ok == SelectSeq(parts, IsValidPart)
    IN  [i \in 1..Len(ok) |-> ok[i].spec]
Synthesized(r) == {n \in DOMAIN tool_fns[r] : worker[r][n].st = "done"}
AllowedNames(call) == {call.tools[i] : i \in 1..Len(call.tools)}
C18_AllowedAreSynthesized ==
    \A r \in Runs : \A j \in Calls(r, "invoker") :
        /\ AllowedNames(llm[r][j]) = Synthesized(r)
        /\ Synthesized(r) # {} => llm[r][j].mode = "required"

\* C19: run is lazy.  A generator that was created and not yet iterated has
\* called no collaborator, changed no history and emitted nothing; the
\* Planner is called only when the first event has been delivered; what a
\* run has done never goes beyond the phase its consumer asked for (no file
\* is written before the 'Writing' event was delivered, no Invoker call is
\* made before the 'Analyzing' event, no capability is invoked before an
\* 'Executing' event, no Summarizer call before the 'Processing' event); and
\* once the consumer has stopped, nothing happens any more.
Untouched(r) ==
    /\ llm[r] = <<>> /\ invoked[r] = <<>>
    /\ creation_thread[r] = <<>> /\ response_thread[r] = <<>>
    /\ events[r] = <<>> /\ frames[r] = <<>>
    /\ tools_to_create[r] = <<>> /\ tool_fns[r] = EmptyMap
    /\ worker[r] = Worker0
    /\ \A i \in 1..Len(writes) : writes[i].run # r
Delivered(r, type) == \E i \in 1..Len(frames[r]) : frames[r][i].data.type = type
OnDemand(r) ==
    /\ pc[r] \in {"unborn", "idle"} => Untouched(r)
    /\ llm[r] # <<>> => frames[r][1] = Frame(Ev("determining"))
    /\ (pc[r] \in {"plan", "closed"} /\ Len(frames[r]) <= 1) =>
            llm[r] = <<>> /\ tools_to_create[r] = <<>> /\ response_thread[r] = <<>>
    /\ (\E n \in Names : worker[r][n].st # "none") => Delivered(r, "writing")
    /\ Calls(r, "invoker") # {} => Delivered(r, "analyzing")
    /\ invoked[r] # <<>> => Delivered(r, "executing")
    /\ Calls(r, "summarizer") # {} => Delivered(r, "processing")
C19_Lazy ==
    [][\A r \in Runs :
        /\ OnDemand(r) /\ OnDemand(r)'
        /\ (llm[r] = <<>> /\ llm'[r] # <<>>) => frames[r] = <<Frame(Ev("determining"))>>
        /\ pc[r] = "closed" => UNCHANGED vars]_vars

\* the consumer stopped after the first event: the Planner was never called
C19_Witness ==
    /\ pc[1] = "closed"
    /\ frames[1] = <<Frame(Ev("determining"))>>
    /\ Len(creation_thread[1]) = 1
    /\ llm[1] = <<>>

\* C20: the transport wrapper has yielded exactly one frame per event of
\* the run, in the run's order, each carrying its event; it sends the
\* session log at most once, only when the run's sequence has ended after
\* its last event was forwarded, for the run's session id, and the log is
\* the full list of the events forwarded.
C20_ForwardThenLog ==
    \A r \in Runs :
        /\ Len(frames[r]) = Len(events[r])
        /\ \A i \in 1..Len(events[r]) : frames[r][i] = [data |-> events[r][i]]
        /\ Len(log_calls[r]) <= 1
        /\ log_calls[r] # <<>> =>
            /\ pc[r] = "done"
            /\ frames[r][Len(frames[r])].data.type = "final"
            /\ log_calls[r][1].session = session_id(r)
            /\ log_calls[r][1].session_log = events[r]

\* the log of a run of twelve or more events, one of them an execution error
C20_Witness ==
    /\ Len(log_calls[1]) = 1
    /\ Len(log_calls[1][1].session_log) >= 12
    /\ Len(frames[1]) = Len(log_calls[1][1].session_log)
    /\ \E i \in 1..Len(frames[1]) : frames[1][i].data.type = "exec_error"

\* C21: the requests are processed one at a time, each loaded and then
\* invoked before the next is loaded: when the load step of request k + 1
\* is under way, requests 1..k have their results.
C21_OneRequestAtATime ==
    \A r \in Runs :
        pc[r] = "import_do" =>
            Len(response_tool_call_results[r]) + Len(pending_error[r]) = idx[r] - 1

\* C21 as amended: the requests are loaded one at a time in the order
\* received, and then invoked one at a time in the same order: the load
\* events name the requests in order, the k-th call step is that of the
\* k-th request, no call step begins before every request's load step has
\* ended, and no request is invoked while requests are being loaded.
EventsOf(r, types) == SelectSeq(events[r], LAMBDA e : e.type \in types)
C21_LoadAllThenInvoke ==
    \A r \in Runs :
        LET loads == EventsOf(r, {"importing"})
            loaded == EventsOf(r, {"imported", "import_error"})
            calls == EventsOf(r, {"executing"})
        IN  /\ Len(loads) <= NumCalls(r)
            /\ \A k \in 1..Len(loads) : loads[k].name = CallName(r, k)
            /\ Len(loaded) \in {Len(loads) - 1, Len(loads)}
            /\ \A k \in 1..Len(loaded) : loaded[k].name = CallName(r, k)
            /\ \A k \in 1..Len(calls) : calls[k].n = k /\ calls[k].name = CallName(r, k)
            /\ calls # <<>> => Len(loaded) = NumCalls(r)
            /\ pc[r] \in {"import_next", "import_do"} =>
                /\ invoked[r] = <<>>
                /\ response_tool_call_results[r] = <<>> /\ pending_error[r] = <<>>

\* two requests: the second was loaded before the first was invoked
C21_Witness ==
    /\ pc[1] = "exec_do"
    /\ NumCalls(1) = 2
    /\ idx[1] = 1
    /\ DOMAIN bound[1] = {CallName(1, 1), CallName(1, 2)}
    /\ CallName(1, 1) # CallName(1, 2)
    /\ invoked[1] = <<>>

\* C22: when the execution loop has ended, the events between the
\* call-extraction event and the 'Processing' event are exactly four per
\* Call Request: for the k-th request one 'Importing' event and after it one
\* load-outcome event (success or error), one 'Executing k/N' event and
\* after it one call-outcome event (completed or error); 4N events in all.
IndexOf(r, types) == CHOOSE i \in 1..Len(events[r]) : events[r][i].type \in types
C22_FourEventsPerCall ==
    \A r \in Runs :
        LoopEnded(r) =>
            LET N == NumCalls(r)
                from == IndexOf(r, {"need_exec", "no_exec"})
                to == IndexOf(r, {"processing"})
                between == SubSeq(events[r], from + 1, to - 1)
            IN  /\ Len(EventsOf(r, {"need_exec", "no_exec"})) = 1
                /\ Len(between) = 4 * N
                /\ \A k \in 1..N :
                    /\ between[2 * k - 1] = Event("importing", CallName(r, k), 0, 0, "")
                    /\ between[2 * k].type \in {"imported", "import_error"}
                    /\ between[2 * k].name = CallName(r, k)
                    /\ between[2 * N + 2 * k - 1] = Event("executing", CallName(r, k), k, N, "")
                    /\ between[2 * N + 2 * k].type \in {"completed", "exec_error"}
                    /\ between[2 * N + 2 * k].name = CallName(r, k)

\* two requests, eight events: one load failed, one call completed
C22_Witness ==
    /\ LoopEnded(1)
    /\ NumCalls(1) = 2
    /\ Len(EventsOf(1, {"importing", "imported", "import_error", "executing",
                         "completed", "exec_error"})) = 8
    /\ HasEvent(1, "import_error")
    /\ HasEvent(1, "completed")

\* C23: when the execution loop has ended, every Call Request whose load
\* step emitted an error event has an error Call Result (never a success
\* one), and no operation was invoked for it.
LoadOutcomes(r) == EventsOf(r, {"imported", "import_error"})
C23_LoadFailureIsError ==
    \A r \in Runs :
        LoopEnded(r) =>
            \A k \in 1..NumCalls(r) :
                LoadOutcomes(r)[k].type = "import_error" =>
                    /\ response_tool_call_results[r][k].output.json = "object"
                    /\ response_tool_call_results[r][k].output.error # ""
                    /\ \A j \in 1..Len(invoked[r]) :
                        invoked[r][j].call_id # new_fn_invocations[r][k].item.call_id

\* C24: when the execution loop has ended, every Call Request whose call
\* raised, or returned a value json.dumps cannot encode, has exactly one
\* 'Error executing tool' event, which carries the exception's message, and
\* one Call Result: its call identifier with the encoded object
\* {error: message}.  That result is in the execution history at the
\* request's position after the Invoker's items, and in the input of the
\* Summarizer call.
Failure(r, k) ==
    LET out == Eval(r, CallName(r, k), new_fn_invocations[r][k].args)
    IN  IF out.raised THEN out.msg
        ELSE IF ~Serializable(out) THEN "TypeError" ELSE ""
Failed(r) == {k \in 1..NumCalls(r) : Failure(r, k) # ""}
C24_ErrorIsRecorded ==
    \A r \in Runs :
        LoopEnded(r) =>
            /\ Len(EventsOf(r, {"exec_error"})) = Cardinality(Failed(r))
            /\ \A k \in Failed(r) :
                LET inv == new_fn_invocations[r][k]
                    result == [type |-> "function_call_output", call_id |-> inv.item.call_id,
                               output |-> [json |-> "object", int |-> 0,
                                           error |-> Failure(r, k)]]
                    at == 1 + Len(use_tool_output[r]) + k
                IN  /\ EventsOf(r, {"completed", "exec_error"})[k]
                            = Event("exec_error", inv.item.name, 0, 0, Failure(r, k))
                    /\ response_tool_call_results[r][k] = result
                    /\ response_thread[r][at] = result
                    /\ \A j \in Calls(r, "summarizer") : llm[r][j].input[at] = result

\* a run whose first call raised and whose second returned a value that
\* cannot be encoded, after the Summarizer was called
C24_Witness ==
    /\ pc[1] = "done"
    /\ NumCalls(1) = 2
    /\ Failure(1, 1) = "ToolError"
    /\ Failure(1, 2) = "TypeError"
    /\ Calls(1, "summarizer") # {}

\* C25: a run whose Planner answered with zero specifications does not
\* abort there: with an empty capability mapping it emits no capability
\* event, the 'Writing' event, 'Finished writing code for 0 tools', the
\* persistence event, the two invocation-planning events and then the
\* warning 'No tools were created'; it writes no source and calls no
\* Synthesizer.
ZeroSpecsEvents(persisted) ==
    <<Ev("determining"), Ev("great"), Ev("writing"), Event("finished", "", 0, 0, ""),
      persisted, Ev("now_use"), Ev("analyzing"), Ev("no_tools")>>
C25_ZeroSpecsContinue ==
    \A r \in Runs :
        (HasEvent(r, "great") /\ tools_to_create[r] = <<>>) =>
            LET n == IF Len(events[r]) < 8 THEN Len(events[r]) ELSE 8
            IN  /\ \E persisted \in {Ev("added"), Event("persist_failed", "", 0, 0, "StoreError")} :
                    SubSeq(events[r], 1, n) = SubSeq(ZeroSpecsEvents(persisted), 1, n)
                /\ pc[r] = "aborted" => n = 8
                /\ tool_fns[r] = EmptyMap
                /\ \A m \in Names : worker[r][m].st = "none"
                /\ \A i \in 1..Len(writes) : writes[i].run # r

\* the warning has been emitted after a Planner answer without a specification
C25_Witness ==
    /\ pc[1] = "invoke"
    /\ tools_to_create[1] = <<>>
    /\ Len(events[1]) = 8
    /\ events[1][8] = Ev("no_tools")
    /\ events[1][5] = Ev("added")

\* C26: when the Planner model call has raised, the run is aborted: its only
\* event is 'Determining necessary tool definitions...', the planning
\* history holds the user request alone, the capability mapping is empty,
\* and the run has made no other model call, started no synthesis, written
\* no source, inserted nothing in the session store, loaded and invoked
\* nothing, and sent no session log.
PlannerFailed(r) == Len(oracle[r].planner) = 1 /\ oracle[r].planner[1].raised
C26_PlannerFailureAborts ==
    \A r \in Runs :
        (PlannerFailed(r) /\ Calls(r, "planner") # {}) =>
            /\ pc[r] = "aborted"
            /\ events[r] = <<Ev("determining")>>
            /\ creation_thread[r] =
                    <<[role |-> "user", content |-> user_request(r), output |-> <<>>]>>
            /\ tools_to_create[r] = <<>>
            /\ tool_fns[r] = EmptyMap
            /\ Len(llm[r]) = 1
            /\ \A m \in Names : worker[r][m].st = "none"
            /\ \A i \in 1..Len(writes) : writes[i].run # r
            /\ \A i \in 1..Len(tools_table) : \A j \in 1..Len(tools_table[i]) :
                    tools_table[i][j].session # session_id(r)
            /\ response_thread[r] = <<>>
            /\ bound[r] = EmptyMap
            /\ invoked[r] = <<>>
            /\ response_tool_call_results[r] = <<>>
            /\ log_calls[r] = <<>>

\* the Planner call of the run has raised
C26_Witness ==
    /\ PlannerFailed(1)
    /\ llm[1] # <<>>
    /\ llm[1][1].kind = "planner"
    /\ pc[1] = "aborted"

\* C27: when the Invoker model call or the Summarizer model call of a run
\* has raised, the run is aborted, the last event is the one emitted before
\* that call ('Analyzing' or 'No tools were created' before the Invoker,
\* 'Processing the results' before the Summarizer), the run has no 'Final
\* response' event, and the transport wrapper has sent no session log.
Raised(r, kind) ==
    /\ Calls(r, kind) # {}
    /\ IF kind = "invoker"
       THEN oracle[r].invoker # <<>> /\ oracle[r].invoker[1].raised
       ELSE oracle[r].summary # <<>> /\ oracle[r].summary[1].raised
C27_ModelFailurePropagates ==
    \A r \in Runs :
        LET last == events[r][Len(events[r])].type
        IN  /\ Raised(r, "invoker") =>
                /\ pc[r] = "aborted"
                /\ last \in {"analyzing", "no_tools"}
                /\ Calls(r, "summarizer") = {}
            /\ Raised(r, "summarizer") =>
                /\ pc[r] = "aborted"
                /\ last = "processing"
            /\ (Raised(r, "invoker") \/ Raised(r, "summarizer")) =>
                /\ ~HasEvent(r, "final")
                /\ log_calls[r] = <<>>
                /\ all_messages[r] = events[r]

\* the Summarizer call raised after a call completed
C27_Witness ==
    /\ Raised(1, "summarizer")
    /\ HasEvent(1, "completed")
    /\ pc[1] = "aborted"

\* C28: the Summarizer is called at most once in a run, without tools, and
\* the input of the call is exactly the user request, then every item of
\* the Invoker's output in the Invoker's order (function calls or not), then
\* one Call Result per Call Request in request order.
C28_SummarizerInput ==
    \A r \in Runs :
        /\ Cardinality(Calls(r, "summarizer")) <= 1
        /\ \A j \in Calls(r, "summarizer") :
            LET input == llm[r][j].input
                items == oracle[r].invoker[1].output
                results == SubSeq(input, 2 + Len(items), Len(input))
            IN  /\ llm[r][j].tools = <<>>
                /\ llm[r][j].mode = "none"
                /\ Len(input) = 1 + Len(items) + Len(Requests(r))
                /\ input[1] = [role |-> "user", content |-> user_request(r)]
                /\ SubSeq(input, 2, 1 + Len(items)) = items
                /\ \A k \in 1..Len(results) :
                    /\ results[k].type = "function_call_output"
                    /\ results[k].call_id = Requests(r)[k].call_id

\* the Summarizer was given a history of four entries: the request, a
\* message item and a function call of the Invoker, and one Call Result
C28_Witness ==
    /\ Calls(1, "summarizer") # {}
    /\ Len(oracle[1].invoker[1].output) = 2
    /\ oracle[1].invoker[1].output[1] = MessageItem
    /\ Len(llm[1][Len(llm[1])].input) = 4
    /\ llm[1][Len(llm[1])].input[4].type = "function_call_output"

\* C29: every step of a run leaves the planning history and the execution
\* history as they were or extends them at the end.  In the planning phase
\* the planning history is the user request alone until the Planner has
\* answered, then the user request followed by the Planner's raw output;
\* the capability mapping changes only in a step that has put that output
\* into the history.
IsPrefix(s, t) == Len(s) <= Len(t) /\ SubSeq(t, 1, Len(s)) = s
UserEntry(r) == [role |-> "user", content |-> user_request(r), output |-> <<>>]
PlannerEntry(r) ==
    [role |-> "assistant", content |-> "", output |-> oracle[r].planner[1].text,
     calls |-> oracle[r].planner[1].calls]
C29_Step(r) ==
    /\ IsPrefix(creation_thread[r], creation_thread'[r])
    /\ IsPrefix(response_thread[r], response_thread'[r])
    /\ pc'[r] = "plan" => creation_thread'[r] = <<UserEntry(r)>>
    /\ pc'[r] \in {"report", "submit", "collect", "shutdown", "persist"} =>
            creation_thread'[r] = <<UserEntry(r), PlannerEntry(r)'>>
    /\ tools_to_create'[r] # tools_to_create[r] =>
            /\ creation_thread[r] = <<UserEntry(r)>>
            /\ creation_thread'[r] = <<UserEntry(r), PlannerEntry(r)'>>
C29_AppendOnly == [][\A r \in Runs : C29_Step(r)]_vars

\* a finished run: three entries in the planning history, and an execution
\* history of the request, two Invoker items and their two results
C29_Witness ==
    /\ pc[1] = "done"
    /\ Len(creation_thread[1]) = 3
    /\ creation_thread[1][2].output # <<>>
    /\ Len(response_thread[1]) = 5

\* C30: once the 'Writing tool source code....' event is out, the events
\* between 'Great!' and it are the capability events, one per distinct
\* extracted name: the i-th is '<name>: <description>' of the i-th name in
\* order of first appearance among the extracted specifications, with the
\* description of the last specification of that name; no capability event
\* comes later.
RECURSIVE FirstNames(_)
FirstNames(specs) ==
    IF specs = <<>> THEN <<>>
    ELSE LET before == FirstNames(SubSeq(specs, 1, Len(specs) - 1))
             name == specs[Len(specs)].name
         IN  IF \E i \in 1..Len(before) : before[i] = name THEN before
             ELSE Append(before, name)
C30_OneEventPerEntry ==
    \A r \in Runs :
        HasEvent(r, "writing") =>
            LET specs == Extracted(r)
                names == FirstNames(specs)
                from == IndexOf(r, {"great"})
                to == IndexOf(r, {"writing"})
            IN  /\ to = from + Len(names) + 1
                /\ Len(names) = Len(tools_to_create[r])
                /\ Len(EventsOf(r, {"tool"})) = Len(names)
                /\ \A i \in 1..Len(names) :
                    events[r][from + i] =
                        Event("tool", names[i], LastOf(specs, names[i]).description, 0, "")

\* two specifications of one name were extracted: one capability event,
\* with the description of the second
C30_Witness ==
    /\ HasEvent(1, "writing")
    /\ Len(Extracted(1)) = 2
    /\ Extracted(1)[1].name = Extracted(1)[2].name
    /\ EventsOf(1, {"tool"}) = <<Event("tool", Extracted(1)[2].name, 2, 0, "")>>

\* C31: a run has at most one completion event; when it has one, no synthesis
\* error was reported, the count the event states is the number of entries of
\* the capability mapping and the number of entries of tool_fns, and every
\* worker of the run has finished: the planned names' workers have written
\* their source, and no other worker was started.
C31_CompletionCount ==
    \A r \in Runs :
        /\ Len(EventsOf(r, {"finished"})) <= 1
        /\ HasEvent(r, "finished") =>
            LET e == EventsOf(r, {"finished"})[1]
            IN  /\ ~HasEvent(r, "synth_error")
                /\ e.n = Len(tools_to_create[r])
                /\ e.n = Cardinality(DOMAIN tool_fns[r])
                /\ \A m \in Names :
                    worker[r][m].st = IF m \in DictKeys(tools_to_create[r]) THEN "done" ELSE "none"
                /\ \A m \in DOMAIN tool_fns[r] : tool_fns[r][m] = worker[r][m].text

\* two capabilities were synthesized and the event says 2
C31_Witness ==
    /\ HasEvent(1, "finished")
    /\ EventsOf(1, {"finished"})[1].n = 2
    /\ DOMAIN tool_fns[1] = Names

\* C32: a run whose Invoker has answered and whose call extraction is over
\* has exactly one call-extraction event: 'No tools need to be executed' if
\* and only if the Invoker's output holds no Call Request, otherwise 'I need
\* to execute N tool(s)' with N the number of Call Requests.  With no Call
\* Request the run has no load or execute event and goes on to the
\* Summarizer call.
InvokerAnswered(r) ==
    /\ Calls(r, "invoker") # {}
    /\ ~oracle[r].invoker[1].raised
    /\ pc[r] # "extract"
C32_ExtractionEvent ==
    \A r \in Runs :
        InvokerAnswered(r) =>
            LET found == EventsOf(r, {"need_exec", "no_exec"})
                N == Len(Requests(r))
            IN  /\ Len(found) = 1
                /\ found[1].type = "no_exec" <=> N = 0
                /\ found[1].type = "need_exec" => found[1].n = N
                /\ N = 0 =>
                    /\ EventsOf(r, {"importing", "imported", "import_error", "executing",
                                     "completed", "exec_error"}) = <<>>
                    /\ pc[r] = "aborted" => Calls(r, "summarizer") # {}

\* C33: every invocation a run has made is the invocation of one Call
\* Request of the Invoker's output, under that request's name and with the
\* parsed arguments of that request, and no two invocations are of the same
\* request: there are at most as many invocations as Call Requests.
C33_ConsumedOnce ==
    \A r \in Runs :
        /\ Len(invoked[r]) <= Len(Requests(r))
        /\ \A i \in 1..Len(invoked[r]) :
            /\ \E k \in 1..Len(Requests(r)) :
                /\ Requests(r)[k].call_id = invoked[r][i].call_id
                /\ Requests(r)[k].name = invoked[r][i].name
                /\ Requests(r)[k].arguments.json
                /\ invoked[r][i].args = [a |-> Requests(r)[k].arguments.a,
                                          b |-> Requests(r)[k].arguments.b]
            /\ \A j \in 1..Len(invoked[r]) :
                i # j => invoked[r][i].call_id # invoked[r][j].call_id

\* two requests of one name were invoked, each with its own arguments
C33_Witness ==
    /\ Len(invoked[1]) = 2
    /\ invoked[1][1].name = invoked[1][2].name
    /\ invoked[1][1].args # invoked[1][2].args
    /\ LoopEnded(1)

\* C34: when planning is over, every specification the Planner delivered as
\* a structured function call is in the capability mapping, like the
\* marker-delimited ones; once the reporting is over it has its capability
\* event, and once the synthesis has completed it has its source.
StructuredNames(r) ==
    {oracle[r].planner[1].calls[i].name : i \in 1..Len(oracle[r].planner[1].calls)}
C34_StructuredPlanned ==
    \A r \in Runs :
        (Planned(r) /\ HasEvent(r, "great")) =>
            \A n \in StructuredNames(r) :
                /\ n \in DictKeys(tools_to_create[r])
                /\ HasEvent(r, "writing") =>
                        \E i \in 1..Len(events[r]) :
                            events[r][i].type = "tool" /\ events[r][i].name = n
                /\ HasEvent(r, "finished") => n \in DOMAIN tool_fns[r]

\* C35: the name-to-source mapping is all-or-nothing: it is empty or has
\* exactly the keys of the capability mapping, and it is empty when the
\* synthesis raised; after a synthesis that raised, the run records no
\* capability and invokes no capability that one of its workers wrote.
AllOrNothing(r) ==
    /\ DOMAIN tool_fns[r] \in {{}, DictKeys(tools_to_create[r])}
    /\ HasEvent(r, "synth_error") => DOMAIN tool_fns[r] = {}
NoneCarried(r) ==
    HasEvent(r, "synth_error") =>
        /\ ~HasEvent(r, "added")
        /\ \A k \in 1..Len(invoked[r]) : worker[r][invoked[r][k].name].st # "done"
C35_AllOrNothing == \A r \in Runs : AllOrNothing(r) /\ NoneCarried(r)

\* C36: when a run has synthesized a capability named n and invokes n, the
\* operation it invokes is the one defined by the source that run wrote
\* under n, also when an earlier run of the process has loaded another
\* source under that name.
C36_InvokesOwnSource ==
    \A r \in Runs : \A k \in 1..Len(invoked[r]) :
        LET n == invoked[r][k].name
        IN  worker[r][n].st = "done" => invoked[r][k].content = worker[r][n].text

\* C37: a Call Request whose arguments are not valid JSON is isolated like
\* any other failure of one call: when the run is over, that request has an
\* error Call Result, every other Call Request of the Invoker's output has
\* its Call Result, and the Summarizer has been called.
BadRequests(r) ==
    {i \in 1..Len(use_tool_output[r]) :
        /\ IsFunctionCall(use_tool_output[r][i])
        /\ ~IsJson(use_tool_output[r][i].arguments)}
ResultsFor(r, item) ==
    {k \in 1..Len(response_tool_call_results[r]) :
        response_tool_call_results[r][k].call_id = item.call_id}
C37_BadArgumentsIsolated ==
    \A r \in Runs :
        (InvokerAnswered(r) /\ BadRequests(r) # {} /\ pc[r] \in {"aborted", "done"}) =>
            /\ Calls(r, "summarizer") # {}
            /\ \A i \in 1..Len(use_tool_output[r]) :
                    IsFunctionCall(use_tool_output[r][i]) =>
                        ResultsFor(r, use_tool_output[r][i]) # {}
            /\ \A i \in BadRequests(r) :
                    \A k \in ResultsFor(r, use_tool_output[r][i]) :
                        response_tool_call_results[r][k].output.json = "object"

\* C38: a candidate that is valid JSON but no usable specification (no name,
\* no description, or no object) is skipped like a malformed one: the run is
\* not aborted by it (it emits the planning event and, if it ends before
\* the 'Writing' event, not by raising), the capability mapping has exactly
\* the names of the usable specifications of the response, each of them is
\* reported once the reporting is over and has a source once the synthesis
\* has completed.
Usable(spec) == HasName(spec) /\ HasDescription(spec)
UsableNames(r) ==
    {Extracted(r)[i].name : i \in {j \in 1..Len(Extracted(r)) : Usable(Extracted(r)[j])}}
HasUnusable(r) == \E i \in 1..Len(Extracted(r)) : ~Usable(Extracted(r)[i])
C38_UnusableSkipped ==
    \A r \in Runs :
        (Planned(r) /\ HasUnusable(r)) =>
            /\ HasEvent(r, "great")
            /\ pc[r] = "aborted" => HasEvent(r, "writing")
            /\ DictKeys(tools_to_create[r]) = UsableNames(r)
            /\ HasEvent(r, "writing") =>
                    \A n \in UsableNames(r) :
                        \E i \in 1..Len(events[r]) :
                            events[r][i].type = "tool" /\ events[r][i].name = n
            /\ HasEvent(r, "finished") => UsableNames(r) \subseteq DOMAIN tool_fns[r]

====
